---- MODULE Spec2Model ----
(***************************************************************************)
(* Model of the SNS topic subscription resource                            *)
(* (aws/resource_aws_sns_topic_subscription.go) and of the SES custom      *)
(* verification email template resource                                    *)
(* (internal/service/sesv2/custom_verification_email_template...go).       *)
(*                                                                         *)
(* Each CRUD handler is one action.  The answers of the remote service are *)
(* inputs of the action, drawn with \E; the remote object the handlers     *)
(* write to is the variable `remote`.                                      *)
(***************************************************************************)
EXTENDS Integers, Sequences, FiniteSets, TLC

VARIABLES
    d,       \* the *schema.ResourceData of the SNS subscription
    remote,  \* the subscription as the SNS service holds it
    op,      \* the last handler run on the subscription: its calls and result
    nops,    \* number of handlers run so far
    ses,     \* the SES template resource: its ResourceData, remote and last op
    dp       \* one evaluation of a pure function: the delivery-policy diff
             \* suppression, or the attribute codec

vars == <<d, remote, op, nops, ses, dp>>

----------------------------------------------------------------------------
(* Bounds of the model *)

\* handlers run on one subscription record
MaxOps == 2
\* largest configured confirmation_timeout_in_minutes
MaxMinutes == 3
\* status queries the waiter issues per minute of timeout
TicksPerMinute == 1

----------------------------------------------------------------------------
(* Strings.  strings.Contains needs the characters, so a string the code   *)
(* searches in is a sequence of one-character strings.                      *)

\* strings.Contains(s, sub) on sequences
Contains(s, sub) ==
    \E i \in 0..(Len(s) - Len(sub)) :
        \A j \in 1..Len(sub) : s[i + j] = sub[j]

\* schema "protocol": ValidateFunc StringInSlice
Protocols ==
    {"application", "email-json", "email", "firehose", "http", "https",
     "lambda", "sms", "sqs"}

Chars(p) ==
    CASE p = "application" -> <<"a","p","p","l","i","c","a","t","i","o","n">>
      [] p = "email-json"  -> <<"e","m","a","i","l","-","j","s","o","n">>
      [] p = "email"       -> <<"e","m","a","i","l">>
      [] p = "firehose"    -> <<"f","i","r","e","h","o","s","e">>
      [] p = "http"        -> <<"h","t","t","p">>
      [] p = "https"       -> <<"h","t","t","p","s">>
      [] p = "lambda"      -> <<"l","a","m","b","d","a">>
      [] p = "sms"         -> <<"s","m","s">>
      [] p = "sqs"         -> <<"s","q","s">>

\* strings.Contains(d.Get("protocol").(string), sub)
ProtocolContains(p, sub) == Contains(Chars(p), Chars(sub))

\* a nil *string / an absent map key
NULL == "<nil>"

----------------------------------------------------------------------------
(* Values of the configuration *)

RoleValues     == {"", "role1"}
DeliveryValues == {"", "dp1"}
FilterValues   == {"", "fp1"}
RedriveValues  == {"", "rp1"}

\* the attributes of SetSubscriptionAttributes, in the order Update sends them
AttrOrder ==
    <<"RawMessageDelivery", "FilterPolicy", "DeliveryPolicy",
      "SubscriptionRoleArn", "RedrivePolicy">>

AttrNames == {AttrOrder[i] : i \in 1..Len(AttrOrder)}

\* fmt.Sprintf("%t", b)
FmtBool(b) == IF b THEN "true" ELSE "false"

\* the mutable attributes of a configuration
Configs ==
    [raw_message_delivery : BOOLEAN, filter_policy : FilterValues,
     delivery_policy : DeliveryValues, subscription_role_arn : RoleValues,
     redrive_policy : RedriveValues]

----------------------------------------------------------------------------
(* The SNS subscription: resource data, remote object, calls *)

\* the keys of a GetSubscriptionAttributes answer that Read looks at
\* (Endpoint, Owner and TopicArn are opaque strings copied like SubscriptionArn)
ReadKeys ==
    {"SubscriptionArn", "DeliveryPolicy", "FilterPolicy", "Protocol",
     "RedrivePolicy", "ConfirmationWasAuthenticated", "PendingConfirmation",
     "RawMessageDelivery"}

NoAttrs == [a \in AttrNames |-> NULL]

\* one request to the remote service
Call(api, name, value, attrs) ==
    [api |-> api, name |-> name, value |-> value, attrs |-> attrs]

\* Assembles supplied attributes into a single map: an absent key is NULL
expandSNSSubscriptionAttributes(dd) ==
    [a \in AttrNames |->
        CASE a = "DeliveryPolicy" ->
                IF dd.delivery_policy # "" THEN dd.delivery_policy ELSE NULL
          [] a = "FilterPolicy" ->
                IF dd.filter_policy # "" THEN dd.filter_policy ELSE NULL
          [] a = "RawMessageDelivery" ->
                IF dd.raw_message_delivery
                    THEN FmtBool(dd.raw_message_delivery) ELSE NULL
          [] a = "SubscriptionRoleArn" ->
                IF dd.subscription_role_arn # ""
                    THEN dd.subscription_role_arn ELSE NULL
          [] a = "RedrivePolicy" ->
                IF dd.redrive_policy # "" THEN dd.redrive_policy ELSE NULL]

\* the answers of conn.Subscribe: an error, or an output whose SubscriptionArn
\* is arn (a nil output and a nil SubscriptionArn read as "" through
\* aws.StringValue)
SubscribeResponses ==
    {[err |-> TRUE, arn |-> ""], [err |-> FALSE, arn |-> ""],
     [err |-> FALSE, arn |-> "arn1"]}

\* the answers of conn.GetSubscriptionAttributes: "ok" (the attributes of the
\* remote object), "empty" (no error and no attributes) or an error code
NotFoundCodes == {"ResourceNotFound", "NotFound"}
ReadResponses == {"ok", "empty", "InternalError"} \cup NotFoundCodes

\* the attribute map of an "ok" answer for the remote object rem
GetSubscriptionAttributes(rem) ==
    [k \in ReadKeys |->
        CASE k = "SubscriptionArn" -> rem.arn
          [] k = "Protocol" -> rem.protocol
          [] k = "PendingConfirmation" -> FmtBool(rem.pending)
          [] k = "ConfirmationWasAuthenticated" -> NULL
          [] OTHER -> rem.attrs[k]]

\* aws.StringValue / d.Set of a *string: nil reads as ""
StringValue(v) == IF v = NULL THEN "" ELSE v

----------------------------------------------------------------------------
(* waiter.SubscriptionConfirmed: the confirmation poller (4.3 of the       *)
(* specification; the waiter package is not among the sources).            *)

\* what one status query can answer
PollResponses == {"PENDING", "CONFIRMED", "NOTFOUND", "ERROR", "EMPTY"}
\* answers after which the poller asks again
PollRetry == {"PENDING", "EMPTY"}

\* waiter.SubscriptionPendingConfirmationTimeout, in minutes
SubscriptionPendingConfirmationTimeout == 2

RECURSIVE PollFrom(_, _, _)
PollFrom(script, budget, i) ==
    IF i > budget THEN [result |-> "TimedOut", ticks |-> i - 1]
    ELSE CASE script[i] = "CONFIRMED" -> [result |-> "Success", ticks |-> i]
           [] script[i] = "NOTFOUND"  -> [result |-> "NotFound", ticks |-> i]
           [] script[i] = "ERROR"     -> [result |-> "Error", ticks |-> i]
           [] OTHER -> PollFrom(script, budget, i + 1)

\* the poller run against the answers script[1], script[2], ... with a
\* timeout in minutes
SubscriptionConfirmed(script, timeout) ==
    PollFrom(script, timeout * TicksPerMinute, 1)

\* the scripts of answers of length n: k-1 retries (PENDING, with at most one
\* EMPTY among them, at position e), then any answer, then confirmations (the
\* answers the remote would give were it asked again)
Scripts(n) ==
    UNION {
        {[i \in 1..n |->
            IF i < k THEN (IF i = e THEN "EMPTY" ELSE "PENDING")
            ELSE IF i = k THEN last ELSE "CONFIRMED"] :
                e \in 0..(k - 1), last \in PollResponses} :
        k \in 1..n}

----------------------------------------------------------------------------
(* The handlers of the SNS subscription, as functions of the resource data, *)
(* the remote object and the answers of the remote service.                 *)

\* the mutable attributes as the resource data dd holds them
CfgOf(dd) ==
    [raw_message_delivery |-> dd.raw_message_delivery,
     filter_policy |-> dd.filter_policy,
     delivery_policy |-> dd.delivery_policy,
     subscription_role_arn |-> dd.subscription_role_arn,
     redrive_policy |-> dd.redrive_policy]

\* the record of a handler run: the data (pre), configuration (cfg) and
\* remote attributes (rpre) it started from, its remote calls, in order, and its result;
\* live until the framework has stored the resource data the handler returned
NewOp(name, pre, rem) ==
    [name |-> name, live |-> TRUE, err |-> "none", calls |-> <<>>,
     cfg |-> CfgOf(pre), rpre |-> rem.attrs, wait |-> "n/a",
     timeout |-> 0, script |-> <<>>, ticks |-> 0, read |-> "n/a",
     resp |-> "n/a", pre |-> pre]

NoRemote ==
    [exists |-> FALSE, arn |-> "", protocol |-> "", attrs |-> NoAttrs,
     pending |-> FALSE]

\* NotFoundRemovesState without the test of d.IsNewResource()
NotFoundRemovesState_AlsoWhenNew(isNew, resp) == resp \in NotFoundCodes

\* Read, line 175: a not-found answer for a record that is not new
NotFoundRemovesState(isNew, resp) == ~isNew /\ resp \in NotFoundCodes

\* Read, lines 189-213: the attributes of an answer stored into the data dd;
\* an absent key stores "" or false
ReadAttributes(dd, attributes) ==
    [dd EXCEPT
       !.arn = StringValue(attributes["SubscriptionArn"]),
       !.delivery_policy = StringValue(attributes["DeliveryPolicy"]),
       !.filter_policy = StringValue(attributes["FilterPolicy"]),
       !.protocol = StringValue(attributes["Protocol"]),
       !.redrive_policy = StringValue(attributes["RedrivePolicy"]),
       !.confirmation_was_authenticated =
           (attributes["ConfirmationWasAuthenticated"] = "true"),
       !.pending_confirmation =
           (attributes["PendingConfirmation"] = "true"),
       !.raw_message_delivery =
           (attributes["RawMessageDelivery"] = "true")]

\* resourceAwsSnsTopicSubscriptionRead on the data dd, answered resp by
\* GetSubscriptionAttributes; isNew is d.IsNewResource()
resourceAwsSnsTopicSubscriptionRead(dd, isNew, resp, rem) ==
    IF NotFoundRemovesState(isNew, resp)
        THEN [d |-> [dd EXCEPT !.id = ""], err |-> "none"]
    ELSE IF resp \notin {"ok", "empty"}
        THEN [d |-> dd, err |-> "ReadError"]
    ELSE IF resp = "empty"
        THEN [d |-> dd, err |-> "ReadEmpty"]
    ELSE [d |-> ReadAttributes(dd, GetSubscriptionAttributes(rem)),
          err |-> "none"]

\* the remote object after a GetSubscriptionAttributes answered resp: a
\* not-found answer means the object is gone
RemoteAfterRead(rem, resp) ==
    IF resp \in NotFoundCodes THEN [rem EXCEPT !.exists = FALSE] ELSE rem

\* waitForConfirmation with the test of endpoint_auto_confirms inverted
waitForConfirmation_AutoConfirmSkips(dd) ==
    LET w1 == IF dd.endpoint_auto_confirms
                   /\ ProtocolContains(dd.protocol, "http")
              THEN FALSE ELSE TRUE
    IN  IF ProtocolContains(dd.protocol, "email") THEN FALSE ELSE w1

\* Create, lines 142-150: whether Create calls the waiter
waitForConfirmation(dd) ==
    LET w1 == IF ~dd.endpoint_auto_confirms
                   /\ ProtocolContains(dd.protocol, "http")
              THEN FALSE ELSE TRUE
    IN  IF ProtocolContains(dd.protocol, "email") THEN FALSE ELSE w1

\* Create, lines 152-155: the timeout handed to the waiter, in minutes
ConfirmationTimeout(dd) ==
    IF ProtocolContains(dd.protocol, "http")
        THEN dd.confirmation_timeout_in_minutes
        ELSE SubscriptionPendingConfirmationTimeout

\* ReadAfterWait that ignores the waiter's error
ReadAfterWait_Always(w) == TRUE

\* Create, lines 157-163: what follows the waiter's result w
\* ("skipped" when the waiter was not called): the Read step, or an error
ReadAfterWait(w) == w.result \in {"skipped", "Success"}

resourceAwsSnsTopicSubscriptionCreate(dd, rem, sub, script, readResp) ==
    LET input == Call("Subscribe", "", "", expandSNSSubscriptionAttributes(dd))
        op0 == [NewOp("Create", dd, rem) EXCEPT !.calls = <<input>>, !.resp = sub]
        d1 == [dd EXCEPT !.id = sub.arn]
        rem1 == [exists |-> TRUE, arn |-> sub.arn, protocol |-> dd.protocol,
                 attrs |-> input.attrs, pending |-> TRUE]
        wait == waitForConfirmation(d1)
        timeout == ConfirmationTimeout(d1)
        w == IF wait THEN SubscriptionConfirmed(script, timeout)
             ELSE [result |-> "skipped", ticks |-> 0]
        rem2 == CASE w.result = "Success" -> [rem1 EXCEPT !.pending = FALSE]
                  [] w.result = "NotFound" -> [rem1 EXCEPT !.exists = FALSE]
                  [] OTHER -> rem1
        op1 == [op0 EXCEPT !.wait = w.result, !.ticks = w.ticks,
                           !.timeout = IF wait THEN timeout ELSE 0,
                           !.script = IF wait THEN script ELSE <<>>]
        rd == resourceAwsSnsTopicSubscriptionRead(d1, TRUE, readResp, rem2)
    IN  IF sub.err
            THEN [d |-> dd, remote |-> rem,
                  op |-> [op0 EXCEPT !.err = "SubscribeError"]]
        ELSE IF sub.arn = ""
            THEN [d |-> dd, remote |-> rem,
                  op |-> [op0 EXCEPT !.err = "EmptyResponse"]]
        ELSE IF ~ReadAfterWait(w)
            THEN [d |-> d1, remote |-> rem2,
                  op |-> [op1 EXCEPT !.err = "Wait" \o w.result]]
        ELSE [d |-> rd.d, remote |-> RemoteAfterRead(rem2, readResp),
              op |-> [op1 EXCEPT
                        !.calls = Append(@, Call("GetSubscriptionAttributes",
                                                  "", "", NoAttrs)),
                        !.read = readResp, !.err = rd.err]]

\* the schema key of an attribute
Key(a) ==
    CASE a = "RawMessageDelivery"  -> "raw_message_delivery"
      [] a = "FilterPolicy"        -> "filter_policy"
      [] a = "DeliveryPolicy"      -> "delivery_policy"
      [] a = "SubscriptionRoleArn" -> "subscription_role_arn"
      [] a = "RedrivePolicy"       -> "redrive_policy"

\* HasChange that reports every attribute as changed
HasChange_Always(old, new, a) == TRUE

\* d.HasChange(key): old is the prior state, new the data Update runs on
HasChange(old, new, a) == old[Key(a)] # new[Key(a)]

\* the attributes whose configured value changed
Changed(old, new) == {a \in AttrNames : HasChange(old, new, a)}

\* Update, lines 222, 228-233, 241, 248, 262: the value handed to
\* snsSubscriptionAttributeUpdate for attribute a
AttributeValue(new, a) ==
    CASE a = "RawMessageDelivery" -> FmtBool(new.raw_message_delivery)
      [] a = "FilterPolicy" ->
            IF new.filter_policy = "" THEN "{}" ELSE new.filter_policy
      [] OTHER -> new[Key(a)]

\* RoleProtocolError without its second test
RoleProtocolError_FirehoseOnly(protocol, subscription_role_arn) ==
    IF ProtocolContains(protocol, "firehose") /\ subscription_role_arn = ""
        THEN "Protocol firehose must contain subscription_role_arn!"
    ELSE ""

\* Update, lines 247-254: the configuration error of the pair, "" when none
RoleProtocolError(protocol, subscription_role_arn) ==
    IF ProtocolContains(protocol, "firehose") /\ subscription_role_arn = ""
        THEN "Protocol firehose must contain subscription_role_arn!"
    ELSE IF ~ProtocolContains(protocol, "firehose")
            /\ subscription_role_arn # ""
        THEN "Only protocol firehose supports subscription_role_arn!"
    ELSE ""

\* snsSubscriptionAttributeUpdate without the RedrivePolicy case
snsSubscriptionAttributeUpdate_KeepsEmpty(attributeName, attributeValue) ==
    Call("SetSubscriptionAttributes", attributeName, attributeValue, NoAttrs)

\* snsSubscriptionAttributeUpdate: the SetSubscriptionAttributes request
snsSubscriptionAttributeUpdate(attributeName, attributeValue) ==
    Call("SetSubscriptionAttributes", attributeName,
         IF attributeName = "RedrivePolicy" /\ attributeValue = ""
             THEN NULL ELSE attributeValue,
         NoAttrs)

\* Update, lines 221-265: the i-th `if d.HasChange` block.  acc holds the
\* calls issued so far, the remote attributes and the error returned, if any;
\* failAt is the block whose remote call the service rejects (0: none)
UpdateAttribute(acc, i, old, new, failAt) ==
    LET a == AttrOrder[i]
        req == snsSubscriptionAttributeUpdate(a, AttributeValue(new, a))
    IN  IF acc.err # "none" \/ ~HasChange(old, new, a) THEN acc
        ELSE IF a = "SubscriptionRoleArn"
                /\ RoleProtocolError(new.protocol,
                                     new.subscription_role_arn) # ""
            THEN [acc EXCEPT !.err = "ValidationError"]
        ELSE IF failAt = i
            THEN [acc EXCEPT !.calls = Append(@, req),
                             !.err = "SetAttributeError"]
        ELSE [acc EXCEPT !.calls = Append(@, req), !.attrs[a] = req.value]

RECURSIVE UpdateAttributes(_, _, _, _, _)
UpdateAttributes(acc, i, old, new, failAt) ==
    IF i > Len(AttrOrder) THEN acc
    ELSE UpdateAttributes(UpdateAttribute(acc, i, old, new, failAt),
                          i + 1, old, new, failAt)

\* resourceAwsSnsTopicSubscriptionUpdate: old is the prior state, cfg the
\* new configuration
resourceAwsSnsTopicSubscriptionUpdate(old, rem, cfg, failAt, readResp) ==
    LET new == [old EXCEPT
                  !.raw_message_delivery = cfg.raw_message_delivery,
                  !.filter_policy = cfg.filter_policy,
                  !.delivery_policy = cfg.delivery_policy,
                  !.subscription_role_arn = cfg.subscription_role_arn,
                  !.redrive_policy = cfg.redrive_policy]
        acc == UpdateAttributes(
                  [calls |-> <<>>, attrs |-> rem.attrs, err |-> "none"],
                  1, old, new, failAt)
        rem1 == [rem EXCEPT !.attrs = acc.attrs]
        op0 == [NewOp("Update", old, rem) EXCEPT !.calls = acc.calls,
                                            !.cfg = cfg,
                                            !.err = acc.err]
        rd == resourceAwsSnsTopicSubscriptionRead(new, FALSE, readResp, rem1)
    IN  IF acc.err # "none"
            THEN [d |-> new, remote |-> rem1, op |-> op0]
        ELSE [d |-> rd.d, remote |-> RemoteAfterRead(rem1, readResp),
              op |-> [op0 EXCEPT
                        !.calls = Append(@, Call("GetSubscriptionAttributes",
                                                  "", "", NoAttrs)),
                        !.read = readResp, !.err = rd.err]]

\* the error message Delete tolerates, as words
PendingMsg ==
    <<"Cannot", "unsubscribe", "a", "subscription", "that", "is", "pending",
      "confirmation">>

\* the answers of conn.Unsubscribe: code "" is success
UnsubscribeResponses ==
    {[code |-> "", msg |-> <<>>],
     [code |-> "InvalidParameter",
      msg |-> <<"Invalid", "parameter:", "SubscriptionArn", "Reason:">>
              \o PendingMsg],
     [code |-> "InvalidParameter",
      msg |-> <<"Invalid", "parameter:", "SubscriptionArn">>],
     [code |-> "AuthorizationError", msg |-> PendingMsg],
     [code |-> "NotFound", msg |-> <<"Subscription", "does", "not", "exist">>]}

\* tfawserr.ErrMessageContains(err, code, message)
ErrMessageContains(err, code, message) ==
    err.code = code /\ Contains(err.msg, message)

\* DeleteTolerates that looks at the message alone
DeleteTolerates_AnyCode(err) == Contains(err.msg, PendingMsg)

\* Delete, line 278: whether the Unsubscribe error is the tolerated one
DeleteTolerates(err) ==
    ErrMessageContains(err, "InvalidParameter", PendingMsg)

\* resourceAwsSnsTopicSubscriptionDelete
resourceAwsSnsTopicSubscriptionDelete(dd, rem, resp) ==
    LET op0 == [NewOp("Delete", dd, rem) EXCEPT
                  !.calls = <<Call("Unsubscribe", "", "", NoAttrs)>>,
                  !.resp = resp]
    IN  IF DeleteTolerates(resp)
            THEN [d |-> [dd EXCEPT !.id = ""], remote |-> rem, op |-> op0]
        ELSE IF resp.code # ""
            THEN [d |-> dd, remote |-> rem,
                  op |-> [op0 EXCEPT !.err = "UnsubscribeError"]]
        ELSE [d |-> dd, remote |-> [rem EXCEPT !.exists = FALSE], op |-> op0]

----------------------------------------------------------------------------
(* The state machine of one subscription record *)

\* the protocols of the records explored: every protocol whose name contains
\* "http", "email" or "firehose", and one of the others
InitProtocols ==
    {p \in Protocols :
        \/ ProtocolContains(p, "http") \/ ProtocolContains(p, "email")
        \/ ProtocolContains(p, "firehose") \/ p = "sqs"}

\* the configurations a record starts from: the confirmation settings are
\* varied where Create reads them
InitConfigs ==
    {c \in [protocol : InitProtocols, endpoint_auto_confirms : BOOLEAN,
            confirmation_timeout_in_minutes : {1, MaxMinutes}] :
        \/ ProtocolContains(c.protocol, "http") /\ c.endpoint_auto_confirms
        \/ ~c.endpoint_auto_confirms /\ c.confirmation_timeout_in_minutes = 1}

InitSNS ==
    /\ \E c \in InitConfigs, cfg \in Configs :
          d = [id |-> "", protocol |-> c.protocol,
               endpoint_auto_confirms |-> c.endpoint_auto_confirms,
               confirmation_timeout_in_minutes |->
                   c.confirmation_timeout_in_minutes,
               raw_message_delivery |-> cfg.raw_message_delivery,
               filter_policy |-> cfg.filter_policy,
               delivery_policy |-> cfg.delivery_policy,
               subscription_role_arn |-> cfg.subscription_role_arn,
               redrive_policy |-> cfg.redrive_policy,
               arn |-> "", pending_confirmation |-> FALSE,
               confirmation_was_authenticated |-> FALSE]
    /\ remote = NoRemote
    /\ op = [NewOp("none", d, NoRemote) EXCEPT !.live = FALSE]
    /\ nops = 0

\* the record was destroyed: the framework drops its state
Destroyed == op.name = "Delete" /\ op.err = "none" /\ d.id # ""

\* the answers Create consumes: no script when the waiter is not called, no
\* Read answer when the Read step is not reached
CreateInputs(dd) ==
    {i \in [sub : SubscribeResponses, script : {<<>>}, readResp : {"n/a"}] :
        i.sub.err \/ i.sub.arn = ""}
    \cup
    UNION {
        LET w == IF waitForConfirmation(dd)
                     THEN SubscriptionConfirmed(
                              script, ConfirmationTimeout(dd))
                     ELSE [result |-> "skipped", ticks |-> 0]
        IN  [sub : {s \in SubscribeResponses : ~s.err /\ s.arn # ""},
             script : {script},
             readResp : IF ReadAfterWait(w) THEN ReadResponses ELSE {"n/a"}] :
        script \in IF waitForConfirmation(dd)
                       THEN Scripts(ConfirmationTimeout(dd) * TicksPerMinute)
                       ELSE {<<>>}}

Create ==
    /\ ~ses.active /\ nops < MaxOps /\ ~op.live
    /\ d.id = ""
    /\ \E i \in CreateInputs(d) :
          LET r == resourceAwsSnsTopicSubscriptionCreate(
                      d, remote, i.sub, i.script, i.readResp)
          IN  d' = r.d /\ remote' = r.remote /\ op' = r.op
    /\ nops' = nops + 1
    /\ UNCHANGED <<ses, dp>>

\* a refresh of an existing record
Read ==
    /\ ~ses.active /\ nops < MaxOps /\ ~op.live
    /\ d.id # "" /\ ~Destroyed
    /\ \E readResp \in ReadResponses :
          /\ readResp = "ok" => remote.exists
          /\ LET r == resourceAwsSnsTopicSubscriptionRead(
                         d, FALSE, readResp, remote)
             IN  /\ d' = r.d
                 /\ remote' = RemoteAfterRead(remote, readResp)
                 /\ op' = [NewOp("Read", d, remote) EXCEPT
                             !.calls = <<Call("GetSubscriptionAttributes",
                                              "", "", NoAttrs)>>,
                             !.read = readResp, !.err = r.err]
    /\ nops' = nops + 1
    /\ UNCHANGED <<ses, dp>>

\* Update and Delete follow a handler that succeeded: the framework
\* refreshes a record before it plans a change to it
Update ==
    /\ ~ses.active /\ nops < MaxOps /\ ~op.live
    /\ d.id # "" /\ ~Destroyed /\ op.err = "none" /\ remote.exists
    /\ \E cfg \in Configs :
       \E failAt \in {0} \cup {i \in 1..Len(AttrOrder) :
                                  d[Key(AttrOrder[i])] # cfg[Key(AttrOrder[i])]} :
       \E readResp \in IF failAt = 0 THEN ReadResponses ELSE {"n/a"} :
          LET r == resourceAwsSnsTopicSubscriptionUpdate(
                      d, remote, cfg, failAt, readResp)
          IN  d' = r.d /\ remote' = r.remote /\ op' = r.op
    /\ nops' = nops + 1
    /\ UNCHANGED <<ses, dp>>

Delete ==
    /\ ~ses.active /\ nops < MaxOps /\ ~op.live
    /\ d.id # "" /\ ~Destroyed /\ op.err = "none"
    /\ \E resp \in UnsubscribeResponses :
          LET r == resourceAwsSnsTopicSubscriptionDelete(d, remote, resp)
          IN  d' = r.d /\ remote' = r.remote /\ op' = r.op
    /\ nops' = nops + 1
    /\ UNCHANGED <<ses, dp>>

\* the handler has returned: the framework stores the resource data and the
\* handler's outcome, and the record of its calls is gone
Persist ==
    /\ ~ses.active /\ nops < MaxOps /\ op.live
    /\ op' = [NewOp(op.name, d, remote) EXCEPT !.live = FALSE, !.err = op.err]
    /\ UNCHANGED <<d, remote, nops, ses, dp>>

NextSNS == Create \/ Read \/ Update \/ Delete \/ Persist

----------------------------------------------------------------------------
(* The SES custom verification email template *)

SubjectValues == {"", "s1"}

\* the answers of conn.GetCustomVerificationEmailTemplate: "ok", "nil" (no
\* error and no output) or an error
GetTemplateResponses == {"ok", "nil", "NotFoundException", "InternalError"}

\* FindCustomVerificationEmailTemplateByID: the error it returns, "" when none
FindCustomVerificationEmailTemplateByID(resp) ==
    CASE resp = "NotFoundException" -> "NotFoundError"
      [] resp = "InternalError"     -> "InternalError"
      [] resp = "nil"               -> "EmptyResultError"
      [] OTHER                      -> ""

\* tfresource.NotFound(err) (7 of the specification: an empty result is a hard
\* error; the tfresource package is not among the sources)
NotFound(err) == err = "NotFoundError"

\* TemplateNotFoundRemovesState without the test of d.IsNewResource()
TemplateNotFoundRemovesState_AlsoWhenNew(isNew, err) == NotFound(err)

\* Read, line 170: a not-found error for a record that is not new
TemplateNotFoundRemovesState(isNew, err) == ~isNew /\ NotFound(err)

\* resourceCustomVerificationEmailTemplateRead on the record t
resourceCustomVerificationEmailTemplateRead(t, isNew, resp) ==
    LET err == FindCustomVerificationEmailTemplateByID(resp) IN
    IF TemplateNotFoundRemovesState(isNew, err)
        THEN [t EXCEPT !.id = "", !.err = "none"]
    ELSE IF err # ""
        THEN [t EXCEPT !.err = "ReadError"]
    ELSE [t EXCEPT !.template_name = t.id,
                   !.template_subject = t.remote.subject, !.err = "none"]

\* the remote template after a lookup answered resp
TemplateAfterFind(t, resp) ==
    IF resp = "NotFoundException" THEN [t EXCEPT !.remote.exists = FALSE]
    ELSE t

\* a handler run on the template starts from the record t
Begin(t, name, find) ==
    [t EXCEPT !.name = name, !.find = find, !.preId = t.id,
              !.nops = t.nops + 1]

\* resourceCustomVerificationEmailTemplateCreate; createResp is the answer of
\* CreateCustomVerificationEmailTemplate
resourceCustomVerificationEmailTemplateCreate(t, createResp, resp) ==
    LET t1 == [t EXCEPT !.id = t.template_name,
                        !.remote = [exists |-> TRUE,
                                    subject |-> t.template_subject]]
    IN  IF createResp # "ok" THEN [t EXCEPT !.err = "CreateError"]
        ELSE resourceCustomVerificationEmailTemplateRead(
                 TemplateAfterFind(t1, resp), TRUE, resp)

\* resourceCustomVerificationEmailTemplateUpdate: subject is the configured
\* template_subject, sent when d.GetOk finds it set
resourceCustomVerificationEmailTemplateUpdate(t, subject, updateResp, resp) ==
    LET t1 == [t EXCEPT !.template_subject = subject]
        t2 == [t1 EXCEPT !.remote.subject =
                            IF subject # "" THEN subject ELSE @]
    IN  IF updateResp # "ok" THEN [t1 EXCEPT !.err = "UpdateError"]
        ELSE resourceCustomVerificationEmailTemplateRead(
                 TemplateAfterFind(t2, resp), FALSE, resp)

\* resourceCustomVerificationEmailTemplateDelete
resourceCustomVerificationEmailTemplateDelete(t, resp) ==
    CASE resp = "ok" -> [t EXCEPT !.remote.exists = FALSE, !.err = "none"]
      [] resp = "NotFoundException" ->
            [t EXCEPT !.remote.exists = FALSE, !.err = "none"]
      [] OTHER -> [t EXCEPT !.err = "DeleteError"]

\* dataSourceCustomVerificationEmailTemplateRead
dataSourceCustomVerificationEmailTemplateRead(t, resp) ==
    IF FindCustomVerificationEmailTemplateByID(resp) # ""
        THEN [t EXCEPT !.err = "ReadError"]
    ELSE [t EXCEPT !.ds_id = t.template_name, !.err = "none"]

\* no template is under consideration
NoTemplate ==
    [active |-> FALSE, id |-> "", ds_id |-> "", template_name |-> "t1",
     template_subject |-> "", remote |-> [exists |-> FALSE, subject |-> ""],
     name |-> "none", err |-> "none", find |-> "n/a", preId |-> "", nops |-> 0]

InitSES ==
    \E subject \in SubjectValues, exists \in BOOLEAN :
        ses = [NoTemplate EXCEPT !.active = TRUE,
                                 !.template_subject = subject,
                                 !.remote.exists = exists]

TemplateDestroyed == ses.name = "Delete" /\ ses.err = "none"

\* the lookup can answer "ok" only while the template exists
FindResponses(t) ==
    {r \in GetTemplateResponses : r = "ok" => t.remote.exists}

SESCreate ==
    /\ ses.active /\ ses.nops < MaxOps /\ ses.id = ""
    /\ \E createResp \in {"ok", "error", "nil"},
          resp \in GetTemplateResponses :
          ses' = resourceCustomVerificationEmailTemplateCreate(
                     Begin(ses, "Create", IF createResp = "ok" THEN resp
                                          ELSE "n/a"),
                     createResp, resp)
    /\ UNCHANGED <<d, remote, op, nops, dp>>

SESRead ==
    /\ ses.active /\ ses.nops < MaxOps /\ ses.id # "" /\ ~TemplateDestroyed
    /\ \E resp \in FindResponses(ses) :
          ses' = resourceCustomVerificationEmailTemplateRead(
                     TemplateAfterFind(Begin(ses, "Read", resp), resp),
                     FALSE, resp)
    /\ UNCHANGED <<d, remote, op, nops, dp>>

SESUpdate ==
    /\ ses.active /\ ses.nops < MaxOps /\ ses.id # "" /\ ~TemplateDestroyed
    /\ ses.err = "none"
    /\ \E subject \in SubjectValues, updateResp \in {"ok", "error"},
          resp \in FindResponses(ses) :
          ses' = resourceCustomVerificationEmailTemplateUpdate(
                     Begin(ses, "Update", IF updateResp = "ok" THEN resp
                                          ELSE "n/a"),
                     subject, updateResp, resp)
    /\ UNCHANGED <<d, remote, op, nops, dp>>

SESDelete ==
    /\ ses.active /\ ses.nops < MaxOps /\ ses.id # "" /\ ~TemplateDestroyed
    /\ ses.err = "none"
    /\ \E resp \in {"ok", "NotFoundException", "InternalError"} :
          ses' = resourceCustomVerificationEmailTemplateDelete(
                     Begin(ses, "Delete", "n/a"), resp)
    /\ UNCHANGED <<d, remote, op, nops, dp>>

SESDataSourceRead ==
    /\ ses.active /\ ses.nops < MaxOps
    /\ \E resp \in FindResponses(ses) :
          ses' = dataSourceCustomVerificationEmailTemplateRead(
                     Begin(ses, "DataSourceRead", resp), resp)
    /\ UNCHANGED <<d, remote, op, nops, dp>>

NextSES ==
    SESCreate \/ SESRead \/ SESUpdate \/ SESDelete \/ SESDataSourceRead

----------------------------------------------------------------------------
(* Delivery-policy diff suppression.  A JSON text is a sequence of lexical  *)
(* tokens: punctuation, literals, numbers, quoted strings and whitespace.   *)
(* Arrays and string escapes do not occur in the texts considered.          *)

Quote(s) == "\"" \o s \o "\""

\* the top-level fields of snsTopicSubscriptionDeliveryPolicy, in order
DeliveryPolicyFields ==
    <<"guaranteed", "healthyRetryPolicy", "sicklyRetryPolicy",
      "throttlePolicy">>

\* the fields of the healthy and of the sickly retry policy, in order
RetryPolicyFields ==
    <<"backoffFunction", "maxDelayTarget", "minDelayTarget",
      "numMaxDelayRetries", "numMinDelayRetries", "numNoDelayRetries",
      "numRetries">>

ThrottlePolicyFields == <<"maxReceivesPerSecond">>

\* the fields of Go type string; the others of a nested policy are int
StringFields == {"backoffFunction"}

\* the nested struct type a top-level pointer field points to
NestedFields(i) ==
    IF i = 4 THEN ThrottlePolicyFields ELSE RetryPolicyFields

Range(s) == {s[i] : i \in 1..Len(s)}

\* contents of the quoted strings that occur in the texts
StringContents ==
    Range(DeliveryPolicyFields) \cup Range(RetryPolicyFields)
      \cup Range(ThrottlePolicyFields)
      \cup {"GUARANTEED", "unknownField", "x", "linear", ""}

StringTokens == {Quote(c) : c \in StringContents}

StringContent(tok) == CHOOSE c \in StringContents : Quote(c) = tok

NumberTokens == {"0", "-0", "1", "2", "1.5"}

LiteralTokens == {"true", "false", "null"}

Whitespace == {" "}

\* strconv parsing of a JSON number into a Go int
Atoi(tok) ==
    CASE tok = "0"  -> [err |-> FALSE, n |-> 0]
      [] tok = "-0" -> [err |-> FALSE, n |-> 0]
      [] tok = "1"  -> [err |-> FALSE, n |-> 1]
      [] tok = "2"  -> [err |-> FALSE, n |-> 2]
      [] OTHER      -> [err |-> TRUE, n |-> 0]

\* case folding of a key, for the decoder's case-insensitive field match
Fold(c) == IF c = "GUARANTEED" THEN "guaranteed" ELSE c

Significant(text) == SelectSeq(text, LAMBDA x : x \notin Whitespace)

SyntaxError == [ok |-> FALSE, next |-> 0, val |-> <<>>]

RECURSIVE ParseValue(_, _)
RECURSIVE ParseMembers(_, _, _)

\* the JSON value that starts at token i of t, and the position after it
ParseValue(t, i) ==
    IF i > Len(t) THEN SyntaxError
    ELSE IF t[i] \in StringTokens \cup NumberTokens \cup LiteralTokens
         THEN [ok |-> TRUE, next |-> i + 1,
               val |-> [object |-> FALSE, tok |-> t[i], members |-> <<>>]]
    ELSE IF t[i] # "{" THEN SyntaxError
    ELSE IF i + 1 <= Len(t) /\ t[i + 1] = "}"
         THEN [ok |-> TRUE, next |-> i + 2,
               val |-> [object |-> TRUE, tok |-> "", members |-> <<>>]]
    ELSE ParseMembers(t, i + 1, <<>>)

\* the members of an object from token i on, after the members in acc
ParseMembers(t, i, acc) ==
    IF i + 2 > Len(t) \/ t[i] \notin StringTokens \/ t[i + 1] # ":"
    THEN SyntaxError
    ELSE LET v == ParseValue(t, i + 2)
             ms == Append(acc, [key |-> StringContent(t[i]), val |-> v.val])
         IN  IF ~v.ok \/ v.next > Len(t) THEN SyntaxError
             ELSE IF t[v.next] = ","
                  THEN ParseMembers(t, v.next + 1, ms)
             ELSE IF t[v.next] = "}"
                  THEN [ok |-> TRUE, next |-> v.next + 1,
                        val |-> [object |-> TRUE, tok |-> "",
                                 members |-> ms]]
             ELSE SyntaxError

\* the single JSON value a text consists of
ParseText(text) ==
    LET t == Significant(text)
        r == ParseValue(t, 1)
    IN  IF r.ok /\ r.next = Len(t) + 1 THEN r ELSE SyntaxError

\* json.Compact: the text without its insignificant whitespace, or an
\* error if the text is not one JSON value
Compact_ValidatesOnly(text) ==
    [err |-> ~ParseText(text).ok, bytes |-> text]

Compact(text) ==
    [err |-> ~ParseText(text).ok, bytes |-> Significant(text)]

\* the zero value of a field of a nested policy
ZeroOf(f) == IF f \in StringFields THEN "" ELSE 0

\* a nested policy struct is the tuple of its field values
ZeroStruct(fields) == [i \in 1..Len(fields) |-> ZeroOf(fields[i])]

NilPointer == [nil |-> TRUE, s |-> <<>>]

\* var deliveryPolicy snsTopicSubscriptionDeliveryPolicy
ZeroDeliveryPolicy == <<FALSE, NilPointer, NilPointer, NilPointer>>

\* the field a key names: an exact match, else a case-insensitive one,
\* else 0 (the member is skipped)
FieldIndex(fields, key) ==
    IF \E i \in 1..Len(fields) : fields[i] = key
    THEN CHOOSE i \in 1..Len(fields) : fields[i] = key
    ELSE IF \E i \in 1..Len(fields) : Fold(fields[i]) = Fold(key)
         THEN CHOOSE i \in 1..Len(fields) : Fold(fields[i]) = Fold(key)
    ELSE 0

IsNull(v) == ~v.object /\ v.tok = "null"

\* a JSON value stored into a string or int field holding cur; null
\* leaves the field as it is, a value of another type is a type error
DecodeScalar(f, cur, v) ==
    IF IsNull(v) THEN [err |-> FALSE, val |-> cur]
    ELSE IF f \in StringFields
         THEN IF ~v.object /\ v.tok \in StringTokens
              THEN [err |-> FALSE, val |-> StringContent(v.tok)]
              ELSE [err |-> TRUE, val |-> cur]
    ELSE IF ~v.object /\ v.tok \in NumberTokens /\ ~Atoi(v.tok).err
         THEN [err |-> FALSE, val |-> Atoi(v.tok).n]
    ELSE [err |-> TRUE, val |-> cur]

RECURSIVE DecodeNested(_, _, _, _)

\* members i.. of an object stored into the nested struct s; the decoder
\* records a type error and goes on with the next member
DecodeNested(fields, s, members, i) ==
    IF i > Len(members) THEN [err |-> FALSE, s |-> s]
    ELSE LET k == FieldIndex(fields, members[i].key)
             r == DecodeScalar(fields[k], s[k], members[i].val)
             rest == DecodeNested(fields,
                         IF k = 0 THEN s ELSE [s EXCEPT ![k] = r.val],
                         members, i + 1)
         IN  [err |-> (k # 0 /\ r.err) \/ rest.err, s |-> rest.s]

\* a JSON value stored into the top-level field k of policy p
DecodeField(p, k, v) ==
    IF k = 0 THEN [err |-> FALSE, p |-> p]
    ELSE IF k = 1
         THEN IF IsNull(v) THEN [err |-> FALSE, p |-> p]
              ELSE IF ~v.object /\ v.tok \in {"true", "false"}
                   THEN [err |-> FALSE,
                         p |-> [p EXCEPT ![1] = (v.tok = "true")]]
              ELSE [err |-> TRUE, p |-> p]
    ELSE IF IsNull(v) THEN [err |-> FALSE, p |-> [p EXCEPT ![k] = NilPointer]]
    ELSE LET target == IF p[k].nil THEN ZeroStruct(NestedFields(k))
                       ELSE p[k].s
             r == IF v.object
                  THEN DecodeNested(NestedFields(k), target, v.members, 1)
                  ELSE [err |-> TRUE, s |-> target]
         IN  [err |-> r.err,
              p |-> [p EXCEPT ![k] = [nil |-> FALSE, s |-> r.s]]]

RECURSIVE DecodeMembers(_, _, _)

DecodeMembers(p, members, i) ==
    IF i > Len(members) THEN [err |-> FALSE, p |-> p]
    ELSE LET r == DecodeField(p,
                      FieldIndex(DeliveryPolicyFields, members[i].key),
                      members[i].val)
             rest == DecodeMembers(r.p, members, i + 1)
         IN  [err |-> r.err \/ rest.err, p |-> rest.p]

\* json.Unmarshal([]byte(old), &deliveryPolicy): a syntax error before
\* anything is stored; null stores nothing; a value that is neither null
\* nor an object is a type error
Unmarshal(text) ==
    LET r == ParseText(text)
    IN  IF ~r.ok THEN [err |-> TRUE, p |-> ZeroDeliveryPolicy]
        ELSE IF IsNull(r.val) THEN [err |-> FALSE, p |-> ZeroDeliveryPolicy]
        ELSE IF ~r.val.object THEN [err |-> TRUE, p |-> ZeroDeliveryPolicy]
        ELSE DecodeMembers(ZeroDeliveryPolicy, r.val.members, 1)

RECURSIVE Join(_, _)

\* the members of an object, separated by commas
Join(members, i) ==
    IF i > Len(members) THEN <<>>
    ELSE (IF i = 1 THEN <<>> ELSE <<",">>) \o members[i]
           \o Join(members, i + 1)

Object(members) == <<"{">> \o Join(members, 1) \o <<"}">>

Member(key, value) == <<Quote(key), ":">> \o value

\* the json tag option omitempty: a field holding its zero value is left out
Omitempty(f, val) == val = ZeroOf(f)

\* the encoding of a string or int field
MarshalScalar(f, val) ==
    IF f \in StringFields THEN <<Quote(val)>> ELSE <<ToString(val)>>

RECURSIVE MarshalFields(_, _, _)

\* the encoded members of the nested struct s from field i on
MarshalFields(fields, s, i) ==
    IF i > Len(fields) THEN <<>>
    ELSE (IF Omitempty(fields[i], s[i]) THEN <<>>
          ELSE <<Member(fields[i], MarshalScalar(fields[i], s[i]))>>)
           \o MarshalFields(fields, s, i + 1)

RECURSIVE MarshalPointers(_, _)

\* the encoded members of the pointer fields of p from field k on
MarshalPointers(p, k) ==
    IF k > Len(DeliveryPolicyFields) THEN <<>>
    ELSE (IF p[k].nil THEN <<>>
          ELSE <<Member(DeliveryPolicyFields[k],
                     Object(MarshalFields(NestedFields(k), p[k].s, 1)))>>)
           \o MarshalPointers(p, k + 1)

\* json.Marshal(deliveryPolicy)
Marshal(p) ==
    Object((IF p[1] THEN <<Member(DeliveryPolicyFields[1], <<"true">>)>>
            ELSE <<>>)
           \o MarshalPointers(p, 2))

\* comparison of the two compacted texts
jsonBytesEqual(ob, nb) == ob = nb

suppressEquivalentSnsTopicSubscriptionDeliveryPolicy(old, new) ==
    LET u == Unmarshal(old)
        ob == Compact(Marshal(u.p))
        nb == Compact(new)
    IN  IF u.err THEN FALSE
        ELSE IF ob.err THEN FALSE
        ELSE IF nb.err THEN FALSE
        ELSE jsonBytesEqual(ob.bytes, nb.bytes)

(* The old and the new value of delivery_policy the function is applied to  *)
(* are objects of at most MaxMembers members taken from Members, and the    *)
(* texts of OtherTexts; each with or without whitespace around its tokens.  *)

MaxMembers == 2

\* JSON object members: key, value tokens, the top-level field the key
\* names (0: none) and the value's encoding after decoding (<<>>: left out)
Members ==
    << [key |-> "guaranteed", value |-> <<"true">>,
        field |-> 1, canon |-> <<"true">>],
       [key |-> "guaranteed", value |-> <<"false">>,
        field |-> 1, canon |-> <<>>],
       [key |-> "unknownField", value |-> <<Quote("x")>>,
        field |-> 0, canon |-> <<>>],
       [key |-> "throttlePolicy",
        value |-> Object(<<Member("maxReceivesPerSecond", <<"1">>)>>),
        field |-> 4,
        canon |-> Object(<<Member("maxReceivesPerSecond", <<"1">>)>>)],
       [key |-> "healthyRetryPolicy",
        value |-> Object(<<Member("numRetries", <<"1">>),
                           Member("minDelayTarget", <<"2">>)>>),
        field |-> 2,
        canon |-> Object(<<Member("minDelayTarget", <<"2">>),
                           Member("numRetries", <<"1">>)>>)],
       [key |-> "sicklyRetryPolicy",
        value |-> Object(<<Member("backoffFunction", <<Quote("linear")>>),
                           Member("numRetries", <<"0">>)>>),
        field |-> 3,
        canon |-> Object(<<Member("backoffFunction",
                                  <<Quote("linear")>>)>>)] >>

\* further texts: whether the text is one JSON value, whether it decodes
\* into the policy struct, and the encoding of what it decodes to
OtherTexts ==
    << [text |-> <<>>, valid |-> FALSE, parses |-> FALSE, normal |-> <<>>],
       [text |-> <<"{">>, valid |-> FALSE, parses |-> FALSE,
        normal |-> <<>>],
       [text |-> <<"{", Quote("guaranteed"), "true", "}">>,
        valid |-> FALSE, parses |-> FALSE, normal |-> <<>>],
       [text |-> <<"null">>, valid |-> TRUE, parses |-> TRUE,
        normal |-> Object(<<>>)],
       [text |-> <<"true">>, valid |-> TRUE, parses |-> FALSE,
        normal |-> <<>>],
       [text |-> Object(<<Member("guaranteed", <<"1">>)>>),
        valid |-> TRUE, parses |-> FALSE, normal |-> <<>>],
       [text |-> Object(<<Member("throttlePolicy",
                      Object(<<Member("maxReceivesPerSecond",
                                      <<"1.5">>)>>))>>),
        valid |-> TRUE, parses |-> FALSE, normal |-> <<>>],
       [text |-> Object(<<Member("GUARANTEED", <<"true">>)>>),
        valid |-> TRUE, parses |-> TRUE,
        normal |-> Object(<<Member("guaranteed", <<"true">>)>>)],
       [text |-> Object(<<Member("throttlePolicy",
                      Object(<<Member("maxReceivesPerSecond",
                                      <<"-0">>)>>))>>),
        valid |-> TRUE, parses |-> TRUE,
        normal |-> Object(<<Member("throttlePolicy", Object(<<>>))>>)],
       [text |-> Object(<<Member("throttlePolicy", <<"null">>),
                          Member("healthyRetryPolicy",
                      Object(<<Member("backoffFunction",
                                      <<Quote("")>>)>>))>>),
        valid |-> TRUE, parses |-> TRUE,
        normal |-> Object(<<Member("healthyRetryPolicy", Object(<<>>))>>)],
       [text |-> Object(<<Member("throttlePolicy", Object(<<>>))>>),
        valid |-> TRUE, parses |-> TRUE,
        normal |-> Object(<<Member("throttlePolicy", Object(<<>>))>>)],
       [text |-> Object(<<Member("healthyRetryPolicy", Object(<<>>))>>),
        valid |-> TRUE, parses |-> TRUE,
        normal |-> Object(<<Member("healthyRetryPolicy", Object(<<>>))>>)] >>

\* a value of delivery_policy: an object of the members ms (other = 0) or
\* one of OtherTexts
Policies ==
    {[ms |-> ms, other |-> 0, spaced |-> sp] :
        ms \in UNION {[1..n -> 1..Len(Members)] : n \in 0..MaxMembers},
        sp \in BOOLEAN}
      \cup {[ms |-> <<>>, other |-> k, spaced |-> sp] :
               k \in 1..Len(OtherTexts), sp \in BOOLEAN}

\* the object of the members ms, without whitespace
ObjectOf(ms) ==
    Object([i \in 1..Len(ms) |->
               Member(Members[ms[i]].key, Members[ms[i]].value)])

RECURSIVE Spaced(_)

\* a text with whitespace after each of its tokens
Spaced(t) ==
    IF t = <<>> THEN <<>> ELSE <<Head(t), " ">> \o Spaced(Tail(t))

\* the text of a value of delivery_policy
Text(p) ==
    LET t == IF p.other = 0 THEN ObjectOf(p.ms) ELSE OtherTexts[p.other].text
    IN  IF p.spaced THEN Spaced(t) ELSE t

\* the subscription record while the behaviour follows a template
NoSubscription ==
    [id |-> "", protocol |-> "sqs", endpoint_auto_confirms |-> FALSE,
     confirmation_timeout_in_minutes |-> 1, raw_message_delivery |-> FALSE,
     filter_policy |-> "", delivery_policy |-> "",
     subscription_role_arn |-> "", redrive_policy |-> "", arn |-> "",
     pending_confirmation |-> FALSE, confirmation_was_authenticated |-> FALSE]

NoEvaluation ==
    [done |-> FALSE, result |-> FALSE,
     old |-> [ms |-> <<>>, other |-> 1, spaced |-> FALSE],
     new |-> [ms |-> <<>>, other |-> 1, spaced |-> FALSE]]

\* the plan compares the stored value old with the configured value new
InitDP ==
    /\ dp \in {[NoEvaluation EXCEPT !.old = o, !.new = n] :
                  o \in Policies, n \in Policies}
    /\ d = NoSubscription
    /\ remote = NoRemote /\ nops = 0 /\ ses = NoTemplate
    /\ op = [NewOp("none", d, NoRemote) EXCEPT !.live = FALSE]

\* DiffSuppressFunc of delivery_policy
SuppressDiff ==
    /\ ~dp.done
    /\ dp' = [dp EXCEPT
                !.done = TRUE,
                !.result = suppressEquivalentSnsTopicSubscriptionDeliveryPolicy(
                               Text(dp.old), Text(dp.new))]
    /\ UNCHANGED <<d, remote, op, nops, ses>>

NextDP == SuppressDiff

SpecDP == InitDP /\ [][NextDP]_vars

----------------------------------------------------------------------------
(* The attribute codec: expandSNSSubscriptionAttributes encodes a record    *)
(* into the attribute map of a Subscribe request, and Read decodes the      *)
(* attribute map of a GetSubscriptionAttributes answer into a record.       *)

\* the records encoded, and the records Read decodes into (a record just
\* imported holds the id and defaults; a record refreshed holds what the
\* framework stored before)
CodecRecords ==
    {[NoSubscription EXCEPT
        !.id = "arn1",
        !.raw_message_delivery = c.raw_message_delivery,
        !.filter_policy = c.filter_policy,
        !.delivery_policy = c.delivery_policy,
        !.subscription_role_arn = c.subscription_role_arn,
        !.redrive_policy = c.redrive_policy] : c \in Configs}

\* the answer that carries the attribute map attrs: alone (bare), or with
\* the attributes the service reports for every subscription
AnswerOf(attrs, bare) ==
    [k \in ReadKeys \cup AttrNames |->
        IF k \in AttrNames THEN attrs[k]
        ELSE IF bare THEN NULL
        ELSE CASE k = "SubscriptionArn" -> "arn1"
               [] k = "Protocol" -> "sqs"
               [] k = "PendingConfirmation" -> "false"
               [] OTHER -> NULL]

\* Read, lines 185-215, on an answer without error: an answer without
\* attributes is an error, and the data is left as it was
ReadAnswer(dd, answer) ==
    IF \A k \in DOMAIN answer : answer[k] = NULL
        THEN [d |-> dd, err |-> "ReadEmpty"]
    ELSE [d |-> ReadAttributes(dd, answer), err |-> "none"]

InitCodec ==
    /\ dp \in {[stage |-> "input", R |-> r, prior |-> p, bare |-> b,
                attributes |-> NoAttrs, decoded |-> p, err |-> "none"] :
                  r \in CodecRecords, p \in CodecRecords, b \in BOOLEAN}
    /\ d = NoSubscription
    /\ remote = NoRemote /\ nops = 0 /\ ses = NoTemplate
    /\ op = [NewOp("none", d, NoRemote) EXCEPT !.live = FALSE]

\* the record R is encoded
Encode ==
    /\ dp.stage = "input"
    /\ dp' = [dp EXCEPT !.stage = "encoded",
                        !.attributes = expandSNSSubscriptionAttributes(dp.R)]
    /\ UNCHANGED <<d, remote, op, nops, ses>>

\* the encoded attributes are decoded into the record prior
Decode ==
    /\ dp.stage = "encoded"
    /\ LET r == ReadAnswer(dp.prior, AnswerOf(dp.attributes, dp.bare))
       IN  dp' = [dp EXCEPT !.stage = "decoded", !.decoded = r.d,
                            !.err = r.err]
    /\ UNCHANGED <<d, remote, op, nops, ses>>

NextCodec == Encode \/ Decode

SpecCodec == InitCodec /\ [][NextCodec]_vars

----------------------------------------------------------------------------
(* One behaviour follows one resource: an SNS subscription (ses.active is   *)
(* false) or an SES template (ses.active is true).                          *)

Init ==
    /\ dp = NoEvaluation
    /\ \/ InitSNS /\ ses = NoTemplate
       \/ /\ InitSES
          /\ d = NoSubscription /\ remote = NoRemote /\ nops = 0
          /\ op = [NewOp("none", NoSubscription, NoRemote) EXCEPT
                     !.live = FALSE]

Next == NextSNS \/ NextSES

Spec == Init /\ [][Next]_vars

----------------------------------------------------------------------------
(* Properties *)

\* a handler of the given name has just returned
Returned(name) == op.live /\ op.name = name

\* Create got a non-empty ARN from Subscribe
Subscribed ==
    Returned("Create") /\ op.err \notin {"SubscribeError", "EmptyResponse"}

\* the names of the attributes the handler sent SetSubscriptionAttributes for
SentAt(i) == op.calls[i].name
SetCalls ==
    {i \in 1..Len(op.calls) : op.calls[i].api = "SetSubscriptionAttributes"}
SentNames == {SentAt(i) : i \in SetCalls}

\* C1 as stated: Create skips the confirmation poller for an "http" protocol
\* with endpoint_auto_confirms = true and for an "email" protocol, and calls
\* it, with confirmation_timeout_in_minutes, for an "http" protocol with
\* endpoint_auto_confirms = false.
C1_SkipRuleAsStated ==
    Subscribed =>
        /\ (ProtocolContains(op.pre.protocol, "http")
                /\ op.pre.endpoint_auto_confirms) => op.wait = "skipped"
        /\ ProtocolContains(op.pre.protocol, "email") => op.wait = "skipped"
        /\ (ProtocolContains(op.pre.protocol, "http")
                /\ ~op.pre.endpoint_auto_confirms) =>
              /\ op.wait # "skipped"
              /\ op.timeout = op.pre.confirmation_timeout_in_minutes

\* C1, amended: Create skips the confirmation poller for an "http" protocol
\* with endpoint_auto_confirms = false and for an "email" protocol; for an
\* "http" protocol with endpoint_auto_confirms = true it calls the poller with
\* a timeout of confirmation_timeout_in_minutes minutes.  When the poller is
\* skipped, Create goes from Subscribe straight to the Read step.
C1_SkipRule ==
    Subscribed =>
        /\ (ProtocolContains(op.pre.protocol, "http")
                /\ ~op.pre.endpoint_auto_confirms) => op.wait = "skipped"
        /\ ProtocolContains(op.pre.protocol, "email") => op.wait = "skipped"
        /\ (ProtocolContains(op.pre.protocol, "http")
                /\ op.pre.endpoint_auto_confirms) =>
              /\ op.wait \in {"Success", "TimedOut", "NotFound", "Error"}
              /\ op.timeout = op.pre.confirmation_timeout_in_minutes
        /\ op.wait = "skipped" =>
              /\ op.ticks = 0
              /\ op.read \in ReadResponses
              /\ Len(op.calls) = 2
              /\ op.calls[1].api = "Subscribe"
              /\ op.calls[2].api = "GetSubscriptionAttributes"

\* an "https" subscription whose endpoint confirms by itself was waited for,
\* with the configured timeout
C1_Witness ==
    /\ Subscribed
    /\ op.pre.protocol = "https" /\ op.pre.endpoint_auto_confirms
    /\ op.pre.confirmation_timeout_in_minutes = MaxMinutes
    /\ op.wait = "TimedOut" /\ op.timeout = MaxMinutes

\* the pair (subscription_role_arn, protocol) Update ran on is one the claim
\* has rejected
RejectedPair ==
    \/ op.cfg.subscription_role_arn # "" /\ op.pre.protocol # "firehose"
    \/ op.cfg.subscription_role_arn = "" /\ op.pre.protocol = "firehose"

RoleChanged == op.cfg.subscription_role_arn # op.pre.subscription_role_arn

\* the calls for SubscriptionRoleArn, by position
RoleCalls == {i \in SetCalls : SentAt(i) = "SubscriptionRoleArn"}

\* C2 as stated: every Update rejects (role non-empty, protocol not firehose)
\* and (role empty, protocol firehose) with a configuration error, and accepts
\* the other pairs, sending SubscriptionRoleArn.
C2_RoleValidationAsStated ==
    Returned("Update") =>
        IF RejectedPair THEN op.err = "ValidationError"
        ELSE op.err # "ValidationError" /\ RoleCalls # {}

\* the Update stopped at a remote error before its subscription_role_arn block
StoppedEarlier ==
    /\ op.err = "SetAttributeError"
    /\ SentAt(Len(op.calls)) \in
          {"RawMessageDelivery", "FilterPolicy", "DeliveryPolicy"}

\* C2, amended: an Update in which subscription_role_arn changed, and which
\* no earlier attribute call has stopped, rejects (role non-empty, protocol
\* not firehose) and (role empty, protocol firehose) with the configuration
\* error, sending no SubscriptionRoleArn, and accepts the other pairs, sending
\* SubscriptionRoleArn once with the configured role.  An Update in which
\* subscription_role_arn did not change neither validates the pair nor sends
\* SubscriptionRoleArn.
C2_RoleValidation ==
    Returned("Update") =>
        /\ (RoleChanged /\ ~StoppedEarlier /\ RejectedPair) =>
              op.err = "ValidationError" /\ RoleCalls = {}
        /\ (RoleChanged /\ ~StoppedEarlier /\ ~RejectedPair) =>
              /\ op.err # "ValidationError"
              /\ Cardinality(RoleCalls) = 1
              /\ \A i \in RoleCalls :
                    op.calls[i].value = op.cfg.subscription_role_arn
        /\ (~RoleChanged \/ StoppedEarlier) =>
              op.err # "ValidationError" /\ RoleCalls = {}

\* a role was configured for an "sqs" subscription and Update refused it
C2_Witness ==
    /\ Returned("Update") /\ RoleChanged
    /\ op.pre.protocol = "sqs" /\ op.cfg.subscription_role_arn = "role1"
    /\ op.err = "ValidationError"

\* C3: an Update that ends with the role/protocol validation error has issued
\* no remote call.
C3_ValidationBeforeRemoteCalls ==
    (Returned("Update") /\ op.err = "ValidationError") => op.calls = <<>>

\* C4: after a successful Create, Read or Update, subscription_role_arn is
\* non-empty if and only if protocol is "firehose"; Create sends
\* SubscriptionRoleArn only for "firehose", and always for it.
C4_RoleIffFirehose ==
    (op.live /\ op.name \in {"Create", "Read", "Update"} /\ op.err = "none"
        /\ d.id # "") =>
        /\ (d.subscription_role_arn # "") <=> (d.protocol = "firehose")
        /\ op.name = "Create" =>
              ((op.calls[1].attrs["SubscriptionRoleArn"] # NULL)
                  <=> (op.pre.protocol = "firehose"))

\* C5 as stated: the id is empty until Subscribe has returned a non-empty
\* ARN, equals that ARN in every state thereafter, and is emptied when the
\* confirmation poller finds the remote object gone.
C5_IdLifecycleAsStated ==
    /\ Returned("Create") =>
          /\ ~Subscribed => d.id = "" /\ op.err # "none"
          /\ (Subscribed /\ op.wait # "NotFound") => d.id = op.resp.arn
          /\ op.wait = "NotFound" => d.id = ""
    /\ (op.live /\ op.name \in {"Read", "Update", "Delete"}) =>
          d.id = op.pre.id

\* the handler's refresh was answered not-found
ReadNotFound == op.read \in NotFoundCodes

\* the Unsubscribe answer is the pending-confirmation error
PendingError ==
    op.resp.code = "InvalidParameter" /\ Contains(op.resp.msg, PendingMsg)

\* C5, amended: the id is empty until Subscribe has returned a non-empty ARN
\* (a Create whose Subscribe fails or returns an empty ARN leaves it empty and
\* returns an error); Create then sets it to the returned ARN and keeps it
\* whatever the poller and the Read step answer: when the poller finds the
\* remote object gone, Create returns an error and the id stays.  Afterwards
\* the id changes only by being emptied, by a refresh (Read, or the Read step
\* of Update) answered not-found or by a Delete answered with the
\* pending-confirmation error.
C5_IdLifecycle ==
    /\ op.name = "none" => d.id = ""
    /\ Returned("Create") =>
          /\ op.pre.id = ""
          /\ IF op.resp.err \/ op.resp.arn = ""
                THEN d.id = "" /\ op.err # "none"
                ELSE d.id = op.resp.arn /\ d.id # ""
          /\ op.wait = "NotFound" => op.err = "WaitNotFound"
    /\ (op.live /\ op.name \in {"Read", "Update"}) =>
          /\ op.pre.id # ""
          /\ d.id = IF ReadNotFound THEN "" ELSE op.pre.id
    /\ Returned("Delete") =>
          /\ op.pre.id # ""
          /\ d.id = IF PendingError THEN "" ELSE op.pre.id

\* the poller found the subscription gone: Create failed and the id stays
C5_Witness ==
    /\ Returned("Create") /\ op.wait = "NotFound"
    /\ d.id = "arn1" /\ op.err = "WaitNotFound"

\* the poller was called
Waited == Returned("Create") /\ op.wait \notin {"n/a", "skipped"}

\* the ticks the poller's timeout allows
Budget == op.timeout * TicksPerMinute

\* C6: the confirmation wait returns success at the first tick answering
\* CONFIRMED when all earlier answers were PENDING, TimedOut when every answer
\* up to the deadline is PENDING, and NotFound at the first tick answering
\* NotFound, without further ticks.  Create succeeds only when the wait was
\* skipped or succeeded, and on a wait failure returns an error without
\* performing the Read step.
C6_PollerTerminalStates ==
    /\ Waited =>
          /\ \A k \in 1..Budget :
                (/\ op.script[k] = "CONFIRMED"
                 /\ \A j \in 1..(k - 1) : op.script[j] = "PENDING") =>
                    op.wait = "Success" /\ op.ticks = k
          /\ (\A k \in 1..Budget : op.script[k] = "PENDING") =>
                op.wait = "TimedOut"
          /\ \A k \in 1..Budget :
                (/\ op.script[k] = "NOTFOUND"
                 /\ \A j \in 1..(k - 1) : op.script[j] \in PollRetry) =>
                    op.wait = "NotFound" /\ op.ticks = k
    /\ Returned("Create") =>
          /\ op.err = "none" => op.wait \in {"skipped", "Success"}
          /\ op.wait \in {"TimedOut", "NotFound", "Error"} =>
                /\ op.err # "none"
                /\ op.read = "n/a"
                /\ \A i \in 1..Len(op.calls) :
                      op.calls[i].api # "GetSubscriptionAttributes"

\* the answers PENDING, PENDING, CONFIRMED: success at the third tick
C6_Witness ==
    /\ Waited
    /\ op.script = <<"PENDING", "PENDING", "CONFIRMED">>
    /\ op.wait = "Success" /\ op.ticks = 3 /\ op.err = "none"

\* C8: a Delete whose Unsubscribe fails with the pending-confirmation
\* invalid-parameter error clears the id and returns no error; every other
\* Unsubscribe failure is returned as an error and the id is unchanged.
C8_DeleteToleratesPending ==
    Returned("Delete") =>
        /\ PendingError => d.id = "" /\ op.err = "none"
        /\ (op.resp.code # "" /\ ~PendingError) =>
              /\ op.err = "UnsubscribeError"
              /\ d.id = op.pre.id /\ d.id # ""

\* an unconfirmed subscription was deleted
C8_Witness ==
    Returned("Delete") /\ PendingError /\ d.id = "" /\ op.err = "none"

\* the attributes whose configured value differs from the prior state
ConfigChanged == {a \in AttrNames : op.pre[Key(a)] # op.cfg[Key(a)]}

\* the position of an attribute in the order Update goes through them
Pos(a) == CHOOSE i \in 1..Len(AttrOrder) : AttrOrder[i] = a

\* each attribute is sent at most once, and attributes not sent keep their
\* remote value
SentOnceOthersUntouched ==
    /\ \A i, j \in SetCalls : SentAt(i) = SentAt(j) => i = j
    /\ \A a \in AttrNames \ SentNames : remote.attrs[a] = op.rpre[a]

\* C9 as stated: an Update sends exactly the changed attributes, each once,
\* and leaves the remote values of the others untouched.
C9_ExactlyChangedSentAsStated ==
    Returned("Update") =>
        SentNames = ConfigChanged /\ SentOnceOthersUntouched

\* the position at which the Update stopped (past the last block when it
\* reached its Read step)
StoppedAt ==
    CASE op.err = "ValidationError" -> Pos("SubscriptionRoleArn") - 1
      [] op.err = "SetAttributeError" -> Pos(SentAt(Len(op.calls)))
      [] OTHER -> Len(AttrOrder)

\* C9, amended: Update issues a set-attribute call for an attribute only if
\* its configured value changed, each at most once and each as a call of its
\* own, in the order RawMessageDelivery, FilterPolicy, DeliveryPolicy,
\* SubscriptionRoleArn, RedrivePolicy; an Update that returns neither the
\* validation error nor a set-attribute error sends exactly the changed ones,
\* and one that stops at such an error has sent the changed ones up to there.
\* The remote values of the attributes not sent are left untouched.
C9_ExactlyChangedSent ==
    Returned("Update") =>
        /\ SentNames = {a \in ConfigChanged : Pos(a) <= StoppedAt}
        /\ \A i, j \in SetCalls : i < j => Pos(SentAt(i)) < Pos(SentAt(j))
        /\ SentOnceOthersUntouched
        /\ \A i \in 1..Len(op.calls) :
              op.calls[i].api = "GetSubscriptionAttributes" =>
                  i = Len(op.calls) /\ StoppedAt = Len(AttrOrder)

\* two of five attributes changed and exactly those two were sent
C9_Witness ==
    /\ Returned("Update") /\ op.err = "none"
    /\ ConfigChanged = {"FilterPolicy", "RedrivePolicy"}
    /\ SentNames = ConfigChanged
    /\ Len(op.calls) = 3

\* C7: a refresh of an existing record answered not-found empties the id and
\* succeeds, for the SNS subscription and for the SES template; the same
\* answer to the Read that ends Create is an error and the id is kept; any
\* other error, or an empty result, is an error and the id is unchanged.
C7_ReadNotFound ==
    /\ (op.live /\ op.name \in {"Read", "Update"} /\ op.read # "n/a") =>
          CASE op.read \in NotFoundCodes -> d.id = "" /\ op.err = "none"
            [] op.read \in {"InternalError", "empty"} ->
                  d.id = op.pre.id /\ d.id # "" /\ op.err # "none"
            [] OTHER -> d.id = op.pre.id /\ op.err = "none"
    /\ (Returned("Create") /\ op.read # "n/a") =>
          /\ d.id = op.resp.arn /\ d.id # ""
          /\ op.read # "ok" => op.err # "none"
    /\ (ses.name \in {"Read", "Update"} /\ ses.find # "n/a") =>
          CASE ses.find = "NotFoundException" ->
                  ses.id = "" /\ ses.err = "none"
            [] ses.find \in {"InternalError", "nil"} ->
                  ses.id = ses.preId /\ ses.id # "" /\ ses.err # "none"
            [] OTHER -> ses.id = ses.preId /\ ses.err = "none"
    /\ (ses.name = "Create" /\ ses.find # "n/a") =>
          /\ ses.id = ses.template_name /\ ses.id # ""
          /\ ses.find # "ok" => ses.err # "none"

\* a refresh found the subscription gone and removed it from the state
C7_Witness ==
    /\ Returned("Read") /\ op.read \in NotFoundCodes
    /\ op.pre.id = "arn1" /\ d.id = "" /\ op.err = "none"

----------------------------------------------------------------------------
(* Delivery-policy diff suppression, stated on the structure of the two     *)
(* values and not on their texts.                                           *)

\* the text of the old value decodes into the policy struct
OldParses(p) == p.other = 0 \/ OtherTexts[p.other].parses

\* the text of the new value is one JSON value
NewValid(p) == p.other = 0 \/ OtherTexts[p.other].valid

\* the last member of ms naming field f, or 0
LastOf(ms, f) ==
    LET at == {i \in 1..Len(ms) : Members[ms[i]].field = f}
    IN  IF at = {} THEN 0 ELSE CHOOSE i \in at : \A j \in at : j <= i

RECURSIVE KnownNonZero(_, _)

\* the known fields of ms from field f on that do not hold the zero
\* value, in the order of the fields
KnownNonZero(ms, f) ==
    IF f > Len(DeliveryPolicyFields) THEN <<>>
    ELSE LET i == LastOf(ms, f)
         IN  (IF i = 0 \/ Members[ms[i]].canon = <<>> THEN <<>>
              ELSE <<Member(DeliveryPolicyFields[f], Members[ms[i]].canon)>>)
               \o KnownNonZero(ms, f + 1)

\* the schema-normalized form of the old value
Normalized(p) ==
    IF p.other = 0 THEN Object(KnownNonZero(p.ms, 1))
    ELSE OtherTexts[p.other].normal

\* the new value with its whitespace removed and nothing else changed
Compacted(p) ==
    IF p.other = 0 THEN ObjectOf(p.ms) ELSE OtherTexts[p.other].text

HasUnknownField(p) ==
    p.other = 0 /\ \E i \in 1..Len(p.ms) : Members[p.ms[i]].field = 0

\* C10: the delivery-policy diff suppression answers true exactly when the
\* old value decodes into the policy struct, the new value is one JSON
\* value, and the schema-normalized form of old (known fields only, zero
\* values left out, fields in struct order) is byte for byte the new
\* value without its whitespace; hence a new value that differs from the
\* normalized old one by whitespace only is equivalent, a new value with
\* an unknown field is not, and an old or new value that cannot be
\* parsed gives false, never an error.
C10_Equivalent ==
    dp.done =>
        /\ dp.result \in BOOLEAN
        /\ dp.result <=> /\ OldParses(dp.old)
                         /\ NewValid(dp.new)
                         /\ Normalized(dp.old) = Compacted(dp.new)
        /\ HasUnknownField(dp.new) => ~dp.result
        /\ ~OldParses(dp.old) \/ ~NewValid(dp.new) => ~dp.result
        /\ /\ OldParses(dp.old)
           /\ dp.new.spaced
           /\ Compacted(dp.new) = Normalized(dp.old)
           => dp.result

\* the old value loses an unknown member and a zero-valued one, the new
\* value is the rest with whitespace, and the difference is suppressed
C10_Witness ==
    /\ dp.done /\ dp.result
    /\ dp.old.other = 0 /\ Len(dp.old.ms) = MaxMembers
    /\ HasUnknownField(dp.old)
    /\ dp.new.other = 0 /\ dp.new.spaced /\ Len(dp.new.ms) = 1
    /\ Text(dp.new) # Text(dp.old)

----------------------------------------------------------------------------
(* The attribute codec *)

\* the optional field of record r that attribute a encodes is not default
NonDefault(r, a) ==
    IF a = "RawMessageDelivery" THEN r.raw_message_delivery
    ELSE r[Key(a)] # ""

\* C11: codec round trip.  The encoding of a record R has an attribute key
\* exactly for the optional fields of R that are not default (so a record
\* of defaults encodes to the empty map); decoding the encoding through
\* Read gives back the optional fields of R, an absent key read as false
\* or as the empty string; and decoding the empty map gives defaults.
C11_CodecRoundTrip ==
    /\ dp.stage # "input" =>
          \A a \in AttrNames : dp.attributes[a] # NULL <=> NonDefault(dp.R, a)
    /\ dp.stage = "decoded" =>
          /\ dp.err = "none"
          /\ \A a \in AttrNames : dp.decoded[Key(a)] = dp.R[Key(a)]
          /\ dp.attributes = NoAttrs =>
                \A a \in AttrNames : ~NonDefault(dp.decoded, a)

\* C12: redrive null semantics.  Whenever Update hands the attribute updater
\* the RedrivePolicy attribute with an empty configured value, the
\* SetSubscriptionAttributes request carries a null attribute value, never
\* the empty string; every other pair of attribute name and value is sent
\* with exactly the string value handed over.
C12_RedriveNull ==
    Returned("Update") =>
        \A i \in SetCalls :
            LET given == AttributeValue(op.cfg, SentAt(i))
            IN  IF SentAt(i) = "RedrivePolicy" /\ given = ""
                    THEN op.calls[i].value = NULL /\ op.calls[i].value # ""
                ELSE op.calls[i].value = given /\ op.calls[i].value # NULL

\* an Update that clears both the redrive policy and the delivery policy:
\* the former is sent as null, the latter as the empty string
C12_Witness ==
    /\ Returned("Update") /\ op.err = "none"
    /\ op.cfg.redrive_policy = "" /\ op.cfg.delivery_policy = ""
    /\ \E i \in SetCalls :
          SentAt(i) = "RedrivePolicy" /\ op.calls[i].value = NULL
    /\ \E i \in SetCalls :
          SentAt(i) = "DeliveryPolicy" /\ op.calls[i].value = ""
    /\ remote.attrs["RedrivePolicy"] = NULL

====
